---- MODULE Spec2Model ----
(***************************************************************************)
(* Dialog engine of the fitness-plan Telegram bot: the UserSession state   *)
(* machine (user.go), the Bot orchestrator with its session store and      *)
(* goroutine-per-update handlers (bot.go), payment finalization and the    *)
(* process-wide update-id cache.                                           *)
(*                                                                         *)
(* Go strings are sequences of one-character strings, so that len(),       *)
(* strings.HasPrefix, slicing and strconv.Atoi are computed as the code    *)
(* computes them.  Texts sent to the user are named by short tags.         *)
(***************************************************************************)
EXTENDS Integers, Sequences, FiniteSets, TLC

\* ------------------------------------------------------------------ bounds
MaxProcs == 2       \* goroutines that may be in flight at once
MaxEvents == 2      \* updates / webhooks dispatched in one behaviour
WarmEvents == 1     \* of these, those dispatched in a behaviour of SpecWarm
MaxTime == 1        \* seconds the wall clock may advance while nobody sleeps
MaxCalls == 2       \* method calls in one behaviour of SpecSession
MaxUpdates == 103   \* update deliveries in one behaviour of SpecDedup

\* ------------------------------------------------- user.go: UserState iota
StateInitial == 0
StateAskSex == 1
StateAskAge == 2
StateAskHeight == 3
StateAskWeight == 4
StateAskDiabetes == 5
StateAskLevel == 6
StateAskGoal == 7
StateAskType == 8
StatePayment == 9
StateComplete == 10

States == StateInitial..StateComplete

\* ------------------------------------------------------ program constants
MaxMessages == 10        \* IncrementMessageCount
DupWindow == 2           \* CheckDuplicateCommand / CheckDuplicateCallback, seconds
StartWindow == 5         \* checkStartCommand, seconds
MinCallbackLen == 4      \* ProcessButtonCallback: len(data) < 4
HighWater == 100         \* Start: len(processedUpdates) > 100
LowWater == 50           \* cleanOldUpdates: len(processedUpdates) > 50
SleepSeconds == 2        \* ProcessPaymentWebhook: time.Sleep(2 * time.Second)

\* time.Time{} : the zero time, long before the process started
ZeroTime == 0 - 1000

\* ---------------------------------------------------------------- strings
EmptyStr == <<>>

CallbackSex == <<"s","e","x",":">>
CallbackDiabetes == <<"d","i","a",":">>
CallbackLevel == <<"l","v","l",":">>
CallbackGoal == <<"g","o","l",":">>
CallbackType == <<"t","y","p",":">>
CallbackAsk == <<"a","s","k",":">>
AskUnderscore == <<"a","s","k","_">>

S_pay == <<"p","a","y">>
S_slashPay == <<"/","p","a","y">>
S_slashStart == <<"/","s","t","a","r","t">>
S_slashHelp == <<"/","h","e","l","p">>
S_slashFoo == <<"/","f","o","o">>
S_start == <<"s","t","a","r","t">>
S_help == <<"h","e","l","p">>
S_completePayment == <<"c","o","m","p","l","e","t","e","_","p","a","y","m","e","n","t">>
S_getPlan == <<"g","e","t","_","p","l","a","n">>
S_plan == <<"p","l","a","n">>
S_slashPlan == <<"/","p","l","a","n">>

S_male == <<"m","a","l","e">>
S_female == <<"f","e","m","a","l","e">>
S_yes == <<"y","e","s">>
S_no == <<"n","o">>
S_beginner == <<"b","e","g","i","n","n","e","r">>
S_intermediate == <<"i","n","t","e","r","m","e","d","i","a","t","e">>
S_advanced == <<"a","d","v","a","n","c","e","d">>
S_weight_loss == <<"w","e","i","g","h","t","_","l","o","s","s">>
S_muscle_gain == <<"m","u","s","c","l","e","_","g","a","i","n">>
S_maintenance == <<"m","a","i","n","t","e","n","a","n","c","e">>
S_endurance == <<"e","n","d","u","r","a","n","c","e">>
S_weightLoss == <<"w","e","i","g","h","t"," ","l","o","s","s">>
S_muscleGain == <<"m","u","s","c","l","e"," ","g","a","i","n">>
S_enduranceImprovement == <<"e","n","d","u","r","a","n","c","e"," ","i","m","p","r","o","v","e","m","e","n","t">>
S_strength == <<"s","t","r","e","n","g","t","h">>
S_cardio == <<"c","a","r","d","i","o">>
S_mixed == <<"m","i","x","e","d">>
S_yoga == <<"y","o","g","a">>
S_pilates == <<"p","i","l","a","t","e","s">>
S_other == <<"o","t","h","e","r">>
S_nutrition == <<"n","u","t","r","i","t","i","o","n">>

S_70 == <<"7","0">>
S_minus5 == <<"-","5">>
S_plus7 == <<"+","7">>
S_0 == <<"0">>
S_abc == <<"a","b","c">>
S_12a == <<"1","2","a">>
S_minus == <<"-">>
S_7space == <<"7"," ">>
S_xyz1 == <<"x","y","z",":","1">>
S_ab == <<"a","b">>
S_sexOther == <<"s","e","x",":","x">>

\* strings.HasPrefix(s, p)
HasPrefix(s, p) == Len(s) >= Len(p) /\ SubSeq(s, 1, Len(p)) = p

\* s[n:]
SliceFrom(s, n) == SubSeq(s, n + 1, Len(s))

Digits == {"0","1","2","3","4","5","6","7","8","9"}

DigitVal(c) ==
  CASE c = "0" -> 0 [] c = "1" -> 1 [] c = "2" -> 2 [] c = "3" -> 3
    [] c = "4" -> 4 [] c = "5" -> 5 [] c = "6" -> 6 [] c = "7" -> 7
    [] c = "8" -> 8 [] c = "9" -> 9

\* the digits of strconv.Atoi's argument once an optional sign is removed
AtoiBody(s) == IF Len(s) > 0 /\ s[1] \in {"+", "-"} THEN Tail(s) ELSE s

\* strconv.Atoi returns a nil error
AtoiOk(s) ==
  /\ Len(AtoiBody(s)) > 0
  /\ \A i \in 1..Len(AtoiBody(s)) : AtoiBody(s)[i] \in Digits

RECURSIVE DigitsVal(_)
DigitsVal(d) ==
  IF Len(d) = 0 THEN 0
  ELSE DigitsVal(SubSeq(d, 1, Len(d) - 1)) * 10 + DigitVal(d[Len(d)])

\* the value strconv.Atoi returns when AtoiOk(s)
AtoiVal(s) == IF s[1] = "-" THEN 0 - DigitsVal(AtoiBody(s)) ELSE DigitsVal(AtoiBody(s))

\* tgbotapi Message.IsCommand: the text opens with a bot_command entity
IsCommand(text) == Len(text) > 1 /\ text[1] = "/" /\ text[2] \notin {" ", "@", "/"}

RECURSIVE CommandEnd(_, _)
CommandEnd(text, i) ==
  IF i > Len(text) \/ text[i] \in {" ", "@"} THEN i - 1 ELSE CommandEnd(text, i + 1)

\* tgbotapi Message.Command: the command name without the slash and bot name
Command(text) == IF IsCommand(text) THEN SubSeq(text, 2, CommandEnd(text, 2)) ELSE EmptyStr

\* ------------------------------------------------------- user.go: records
\* UserData{} : every field at its zero value
EmptyData ==
  [Sex |-> EmptyStr, Age |-> 0, Height |-> 0, Weight |-> 0, Diabetes |-> EmptyStr,
   Level |-> EmptyStr, FitnessGoal |-> EmptyStr, FitnessType |-> EmptyStr,
   PaymentID |-> "", CreatedAt |-> ZeroTime]

\* the eight fields filled in by the questions
QuestionFields ==
  {"Sex", "Age", "Height", "Weight", "Diabetes", "Level", "FitnessGoal", "FitnessType"}

\* NewUserSession(userID).  UserSession.CreatedAt is written here and never
\* read by any code, so the record does not carry it.
NewUserSession(userID) ==
  [UserID |-> userID, State |-> StateInitial, Data |-> EmptyData, MessageCount |-> 0,
   LastCommandTime |-> ZeroTime, LastCommand |-> EmptyStr, LastCallback |-> EmptyStr,
   LastMessageID |-> 0]

\* an effect requested from a collaborator: a message to deliver, a payment
\* link to create, a completion to generate
Effect(type, src, uid, msg) == [type |-> type, src |-> src, uid |-> uid, msg |-> msg]

\* CreatePayment(userID) called from src
CreatePaymentFx(src, uid) == Effect("createPayment", src, uid, "")

\* c.GetCompletion(prompt) called from src, the prompt formatted from the
\* profile data and, in handleMessage, the text of the message
CompletionFx(src, uid, data, text) ==
  [type |-> "completion", src |-> src, uid |-> uid, msg |-> "", data |-> data, text |-> text]

\* what a UserSession method hands back: the session after the call, the
\* returned text and error, and the collaborator calls it made
Ret(s, resp, err, fx) == [s |-> s, resp |-> resp, err |-> err, fx |-> fx]

\* A counter that refuses the tenth message already.
IncrementMessageCount_RefusesTenth(s) ==
  [s |-> [s EXCEPT !.MessageCount = @ + 1], ok |-> s.MessageCount + 1 < MaxMessages]

\* s.IncrementMessageCount()
IncrementMessageCount(s) ==
  [s |-> [s EXCEPT !.MessageCount = @ + 1], ok |-> s.MessageCount + 1 <= MaxMessages]

\* A check that recognises no repeat: every command is recorded as new.
CheckDuplicateCommand_NeverRepeats(s, command, t) ==
  [s |-> [s EXCEPT !.LastCommand = command, !.LastCommandTime = t], dup |-> FALSE]

\* s.CheckDuplicateCommand(command) at time t
CheckDuplicateCommand(s, command, t) ==
  IF command # EmptyStr /\ command = s.LastCommand /\ t - s.LastCommandTime < DupWindow
  THEN [s |-> s, dup |-> TRUE]
  ELSE [s |-> [s EXCEPT !.LastCommand = command, !.LastCommandTime = t], dup |-> FALSE]

\* A callback check that records the token but leaves the time to the commands.
CheckDuplicateCallback_KeepsTime(s, callback, t) ==
  IF callback # EmptyStr /\ callback = s.LastCallback /\ t - s.LastCommandTime < DupWindow
  THEN [s |-> s, dup |-> TRUE]
  ELSE [s |-> [s EXCEPT !.LastCallback = callback], dup |-> FALSE]

\* s.CheckDuplicateCallback(callback) at time t
CheckDuplicateCallback(s, callback, t) ==
  IF callback # EmptyStr /\ callback = s.LastCallback /\ t - s.LastCommandTime < DupWindow
  THEN [s |-> s, dup |-> TRUE]
  ELSE [s |-> [s EXCEPT !.LastCallback = callback, !.LastCommandTime = t], dup |-> FALSE]

\* s.GetNextQuestion()
GetNextQuestion(s) ==
  CASE s.State = StateAskSex -> "Specify your gender:"
    [] s.State = StateAskAge -> "Specify your age"
    [] s.State = StateAskHeight -> "Specify your height"
    [] s.State = StateAskWeight -> "Specify your weight"
    [] s.State = StateAskDiabetes -> "Do you have diabetes?"
    [] s.State = StateAskLevel -> "Rate your current fitness level:"
    [] s.State = StateAskGoal -> "What is your main goal?"
    [] s.State = StateAskType -> "What type of workouts do you prefer?"
    [] s.State = StatePayment -> "Collected. Click the button or enter /pay"
    [] s.State = StateComplete -> "Program already created"
    [] OTHER -> "Something went wrong"

\* An answer that looks at the stage of the dialog instead of the profile.
GetAskQuestionAnswer_NeedsComplete(s, question) ==
  IF s.State = StateComplete
  THEN "Please clarify your question about the workout program."
  ELSE "Please complete the questionnaire first."

\* s.GetAskQuestionAnswer(question): reads s.Data, writes nothing; the fixed
\* paragraphs of each answer are left out, the parts chosen or formatted from
\* the profile are kept
GetAskQuestionAnswer(s, question) ==
  LET d == s.Data
      w == d.Weight
      Range(lo, hi) == ToString(lo) \o "-" \o ToString(hi) \o " calories per day"
  IN CASE question = S_nutrition ->
            "NUTRITION RECOMMENDATIONS: "
              \o (IF d.FitnessGoal = S_weightLoss
                  THEN "weight loss at " \o ToString(w) \o " kg and " \o ToString(d.Height)
                         \o " cm, " \o Range(w * 30 - 500, w * 30 - 400)
                  ELSE IF d.FitnessGoal = S_muscleGain
                  THEN "muscle gain at " \o ToString(w) \o " kg, "
                         \o Range(w * 30 + 300, w * 30 + 400)
                  ELSE "maintain " \o ToString(w) \o " kg, " \o Range(w * 28, w * 30))
              \o ", " \o ToString(w * 30) \o " ml of water"
              \o (IF d.Diabetes = S_yes THEN ", recommendations for diabetes" ELSE "")
       [] question = <<"e","x","e","r","c","i","s","e","s">> ->
            "EXERCISE PROGRAM: "
              \o (IF d.FitnessType = S_strength THEN "strength workouts"
                  ELSE IF d.FitnessType = S_cardio THEN "cardio and HIIT workouts"
                  ELSE "full body workout")
              \o (IF d.Level = S_beginner THEN ", recommendations for beginners" ELSE "")
       [] question = <<"p","r","o","g","r","e","s","s">> -> "HOW TO TRACK PROGRESS"
       [] question = <<"d","i","a","b","e","t","e","s">> ->
            "WORKOUTS WITH DIABETES: "
              \o (IF d.Diabetes = S_yes THEN "main recommendations"
                  ELSE "You have not indicated diabetes")
       [] OTHER -> "Please clarify your question about the workout program."

\* Go map literal lookup m[k]: the zero value "" when k is not a key
MapGet(m, k) == IF k \in DOMAIN m THEN m[k] ELSE EmptyStr

SexTable == (S_male :> S_male) @@ (S_female :> S_female)
DiabetesTable == (S_yes :> S_yes) @@ (S_no :> S_no)
LevelTable ==
  (S_beginner :> S_beginner) @@ (S_intermediate :> S_intermediate) @@ (S_advanced :> S_advanced)
\* The goal stored as the token spells it, the table left out.
GoalTable_Raw ==
  (S_weight_loss :> S_weight_loss) @@ (S_muscle_gain :> S_muscle_gain)
    @@ (S_maintenance :> S_maintenance) @@ (S_endurance :> S_endurance)

GoalTable ==
  (S_weight_loss :> S_weightLoss) @@ (S_muscle_gain :> S_muscleGain)
    @@ (S_maintenance :> S_maintenance) @@ (S_endurance :> S_enduranceImprovement)
TypeTable ==
  (S_strength :> S_strength) @@ (S_cardio :> S_cardio) @@ (S_mixed :> S_mixed)
    @@ (S_yoga :> S_yoga) @@ (S_pilates :> S_pilates) @@ (S_other :> S_other)

\* the "Process based on prefix" switch of ProcessButtonCallback
ApplyChoice(s, prefix, value) ==
  CASE prefix = CallbackSex ->
         [s EXCEPT !.Data.Sex = MapGet(SexTable, value), !.State = StateAskAge]
    [] prefix = CallbackDiabetes ->
         [s EXCEPT !.Data.Diabetes = MapGet(DiabetesTable, value), !.State = StateAskLevel]
    [] prefix = CallbackLevel ->
         [s EXCEPT !.Data.Level = MapGet(LevelTable, value), !.State = StateAskGoal]
    [] prefix = CallbackGoal ->
         [s EXCEPT !.Data.FitnessGoal = MapGet(GoalTable, value), !.State = StateAskType]
    [] prefix = CallbackType ->
         [s EXCEPT !.Data.FitnessType = MapGet(TypeTable, value), !.State = StatePayment]
    [] OTHER -> s

FieldPrefixes == {CallbackSex, CallbackDiabetes, CallbackLevel, CallbackGoal, CallbackType}

\* A token that matches no prefix falling into the first case of the switch.
FieldPrefixOf_DefaultsToSex(data) ==
  IF HasPrefix(data, CallbackDiabetes) THEN CallbackDiabetes
  ELSE IF HasPrefix(data, CallbackLevel) THEN CallbackLevel
  ELSE IF HasPrefix(data, CallbackGoal) THEN CallbackGoal
  ELSE IF HasPrefix(data, CallbackType) THEN CallbackType
  ELSE CallbackSex

\* the prefix of data among the five field prefixes, EmptyStr when none
FieldPrefixOf(data) ==
  IF HasPrefix(data, CallbackSex) THEN CallbackSex
  ELSE IF HasPrefix(data, CallbackDiabetes) THEN CallbackDiabetes
  ELSE IF HasPrefix(data, CallbackLevel) THEN CallbackLevel
  ELSE IF HasPrefix(data, CallbackGoal) THEN CallbackGoal
  ELSE IF HasPrefix(data, CallbackType) THEN CallbackType
  ELSE EmptyStr

\* s.ProcessButtonCallback(data); payOK: CreatePayment returns a nil error
ProcessButtonCallback(s, data, payOK) ==
  IF Len(data) < MinCallbackLen THEN Ret(s, "Invalid data", TRUE, <<>>)
  ELSE IF data = S_pay THEN
    Ret(s, IF payOK THEN "Payment link" ELSE "Error creating payment", ~payOK,
        <<CreatePaymentFx("ProcessButtonCallback", s.UserID)>>)
  ELSE IF HasPrefix(data, AskUnderscore) THEN
    Ret(s, GetAskQuestionAnswer(s, SliceFrom(data, Len(AskUnderscore))), FALSE, <<>>)
  ELSE IF FieldPrefixOf(data) # EmptyStr THEN
    LET prefix == FieldPrefixOf(data)
        s2 == ApplyChoice(s, prefix, SliceFrom(data, Len(prefix)))
    IN Ret(s2, GetNextQuestion(s2), FALSE, <<>>)
  ELSE IF HasPrefix(data, CallbackAsk) THEN
    Ret(s, GetAskQuestionAnswer(s, SliceFrom(data, Len(CallbackAsk))), FALSE, <<>>)
  ELSE IF data = S_pay THEN Ret(s, "/pay", FALSE, <<>>)
  ELSE Ret(s, "Unknown command", TRUE, <<>>)

\* Accepting an age, height or weight that strconv.Atoi cannot read and
\* moving on, as a handler that drops the error would.
AskNumber_IgnoresError(s, input, field, next, retry, prompt) ==
  Ret([s EXCEPT !.Data[field] = IF AtoiOk(input) THEN AtoiVal(input) ELSE 0, !.State = next],
      prompt, FALSE, <<>>)

\* Storing the number and jumping over the question that follows.
AskNumber_SkipsAhead(s, input, field, next, retry, prompt) ==
  IF ~AtoiOk(input) THEN Ret(s, retry, FALSE, <<>>)
  ELSE Ret([s EXCEPT !.Data[field] = AtoiVal(input), !.State = next + 1], prompt, FALSE, <<>>)

\* ProcessInput at StateAskAge, StateAskHeight, StateAskWeight: the three cases
\* differ only in the field, the next state and the two texts
AskNumber(s, input, field, next, retry, prompt) ==
  IF ~AtoiOk(input) THEN Ret(s, retry, FALSE, <<>>)
  ELSE Ret([s EXCEPT !.Data[field] = AtoiVal(input), !.State = next], prompt, FALSE, <<>>)

\* Taking a created payment link for a payment, and closing the dialog.
AtPayment_CompletesOnLink(s, input, payOK) ==
  IF input = S_slashPay
  THEN Ret(IF payOK THEN [s EXCEPT !.State = StateComplete] ELSE s,
           IF payOK THEN "Payment link" ELSE "Error creating payment", ~payOK,
           <<CreatePaymentFx("ProcessInput", s.UserID)>>)
  ELSE Ret(s, "Collected. Click the button or enter /pay", FALSE, <<>>)

\* ProcessInput at StatePayment
AtPayment(s, input, payOK) ==
  IF input = S_slashPay
  THEN Ret(s, IF payOK THEN "Payment link" ELSE "Error creating payment", ~payOK,
           <<CreatePaymentFx("ProcessInput", s.UserID)>>)
  ELSE Ret(s, "Collected. Click the button or enter /pay", FALSE, <<>>)

\* s.ProcessInput(input); payOK: CreatePayment returns a nil error
ProcessInput(s, input, payOK) ==
  CASE s.State = StateInitial ->
         Ret([s EXCEPT !.State = StateAskSex], "Opening. Specify your gender:", FALSE, <<>>)
    [] s.State = StateAskSex ->
         Ret([s EXCEPT !.Data.Sex = input, !.State = StateAskAge], "Specify your age", FALSE, <<>>)
    [] s.State = StateAskAge ->
         AskNumber(s, input, "Age", StateAskHeight,
                   "Please enter age in digits", "Specify your height")
    [] s.State = StateAskHeight ->
         AskNumber(s, input, "Height", StateAskWeight,
                   "Please enter height in digits", "Specify your weight")
    [] s.State = StateAskWeight ->
         AskNumber(s, input, "Weight", StateAskDiabetes,
                   "Please enter weight in digits", "Do you have diabetes?")
    [] s.State = StateAskDiabetes ->
         Ret([s EXCEPT !.Data.Diabetes = input, !.State = StateAskLevel],
             "Rate your current fitness level:", FALSE, <<>>)
    [] s.State = StateAskLevel ->
         Ret([s EXCEPT !.Data.Level = input, !.State = StateAskGoal],
             "What is your main goal?", FALSE, <<>>)
    [] s.State = StateAskGoal ->
         Ret([s EXCEPT !.Data.FitnessGoal = input, !.State = StateAskType],
             "What type of workouts do you prefer?", FALSE, <<>>)
    [] s.State = StateAskType ->
         Ret([s EXCEPT !.Data.FitnessType = input, !.State = StatePayment],
             "Collected. Enter /pay", FALSE, <<>>)
    [] s.State = StatePayment -> AtPayment(s, input, payOK)
    [] s.State = StateComplete -> Ret(s, "Program already created", FALSE, <<>>)
    [] OTHER -> Ret(s, "Something went wrong", FALSE, <<>>)

\* Completing only a session that waits for its payment.
SetPaymentCompleted_OnlyFromPayment(s, paymentID, t) ==
  IF s.State = StatePayment
  THEN [s EXCEPT !.Data.PaymentID = paymentID, !.State = StateComplete, !.Data.CreatedAt = t]
  ELSE s

\* Taking the notification of a session that is already complete for a reversal.
SetPaymentCompleted_Alternates(s, paymentID, t) ==
  [s EXCEPT !.Data.PaymentID = paymentID, !.Data.CreatedAt = t,
            !.State = IF s.State = StateComplete THEN StatePayment ELSE StateComplete]

\* s.SetPaymentCompleted(paymentID) at time t
SetPaymentCompleted(s, paymentID, t) ==
  [s EXCEPT !.Data.PaymentID = paymentID, !.State = StateComplete, !.Data.CreatedAt = t]

\* s.GetKeyboardForState(): the button tokens offered, and at StatePayment the
\* CreatePayment call that builds the URL button
GetKeyboardForState(s, payOK) ==
  CASE s.State = StateAskSex ->
         [kb |-> {CallbackSex \o S_male, CallbackSex \o S_female}, fx |-> <<>>]
    [] s.State = StateAskDiabetes ->
         [kb |-> {CallbackDiabetes \o S_yes, CallbackDiabetes \o S_no}, fx |-> <<>>]
    [] s.State = StateAskLevel ->
         [kb |-> {CallbackLevel \o v : v \in DOMAIN LevelTable}, fx |-> <<>>]
    [] s.State = StateAskGoal ->
         [kb |-> {CallbackGoal \o v : v \in DOMAIN GoalTable}, fx |-> <<>>]
    [] s.State = StateAskType ->
         [kb |-> {CallbackType \o v : v \in DOMAIN TypeTable}, fx |-> <<>>]
    [] s.State = StatePayment ->
         [kb |-> IF payOK THEN {} ELSE {S_pay},
          fx |-> <<CreatePaymentFx("GetKeyboardForState", s.UserID)>>]
    [] s.State = StateComplete ->
         [kb |-> {CallbackAsk \o S_nutrition}, fx |-> <<>>]
    [] OTHER -> [kb |-> {}, fx |-> <<>>]

\* ------------------------------------------------------------------ state
VARIABLES
  sessions,          \* b.sessions: user id -> pointer to a UserSession, 0 when the key is absent
  heap,              \* the UserSession objects allocated so far; a pointer is an index
  lastStartTime,     \* b.lastStartTime: user id -> time, ZeroTime when the key is absent
  now,               \* time.Now(), in seconds
  procs,             \* the goroutines started by Start and by the HTTP server
  nEvents,           \* updates and webhooks dispatched so far
  out,               \* collaborator calls made by the latest step
  call,              \* SpecSession: the latest UserSession method call and its result
  processedUpdates,  \* the global processedUpdates map, as the set of its keys
  loop,              \* where the Start loop stands, the update it holds, the highest id seen
  cleaners,          \* cleanOldUpdates goroutines started and not yet run
  accepted,          \* per update id: acceptances since the cache was last cleared, handlers dispatched ever
  useFallback,       \* OpenAIClient.useFallback
  handled            \* the updates handed to handler goroutines so far, in the order of their dispatch

vars ==
  <<sessions, heap, lastStartTime, now, procs, nEvents, out, call,
    processedUpdates, loop, cleaners, accepted, useFallback, handled>>

Users == {1}
ProcIds == 1..MaxProcs

\* the Start loop waiting for its first update
LoopStart == [pc |-> "recv", id |-> 0, hi |-> 0, skipped |-> FALSE]
NoneAccepted == [since |-> <<>>, ever |-> <<>>]

\* a goroutine slot: pc is the next block of its handler, session its local
\* *UserSession (0 is nil), text the message text or callback data, ref the
\* payment session id, resp the text it is about to send, t the time it went
\* to sleep, via how ProcessPaymentWebhook was entered, success what
\* VerifyPayment told it
IdleProc ==
  [pc |-> "idle", kind |-> "none", via |-> "none", uid |-> 0, text |-> EmptyStr,
   session |-> 0, ref |-> "", resp |-> "", t |-> 0, success |-> FALSE]

\* ------------------------------------------------ sessions of a dialog so far
\* The session of a user who answered every question before state st by typing
\* the canonical value, having sent mc messages in all.
CanonicalData(st) ==
  [Sex |-> IF st > StateAskSex THEN S_male ELSE EmptyStr,
   Age |-> IF st > StateAskAge THEN 30 ELSE 0,
   Height |-> IF st > StateAskHeight THEN 175 ELSE 0,
   Weight |-> IF st > StateAskWeight THEN 70 ELSE 0,
   Diabetes |-> IF st > StateAskDiabetes THEN S_no ELSE EmptyStr,
   Level |-> IF st > StateAskLevel THEN S_beginner ELSE EmptyStr,
   FitnessGoal |-> IF st > StateAskGoal THEN S_weightLoss ELSE EmptyStr,
   FitnessType |-> IF st > StateAskType THEN S_strength ELSE EmptyStr,
   PaymentID |-> IF st = StateComplete THEN "pay_123" ELSE "",
   CreatedAt |-> IF st = StateComplete THEN 0 ELSE ZeroTime]

CanonicalSession(uid, st, mc) ==
  [NewUserSession(uid) EXCEPT !.State = st, !.Data = CanonicalData(st), !.MessageCount = mc]

\* messages a user who never sent /start typed to reach st: one per state passed
MinMessages(st) == IF st = StateComplete THEN StatePayment ELSE st

\* The session of a user who sent /start, pressed the buttons of the choice
\* questions, typed the three numbers and sent /pay (five messages), the
\* duplicate checks having last recorded a value at time t.
RepeatSession(t) ==
  [CanonicalSession(1, StatePayment, 5) EXCEPT
     !.LastCommand = S_slashPay,
     !.LastCallback = CallbackType \o S_strength,
     !.LastCommandTime = t]

\* --------------------------------------------------------------- SpecSession
\* One UserSession, its methods called one at a time with inputs of every shape.
NoCall == [n |-> 0, op |-> "none"]

TextInputs ==
  {EmptyStr, S_70, S_minus5, S_plus7, S_0, S_abc, S_12a, S_minus, S_7space, S_slashPay,
   S_slashFoo, S_male}

TableTokens ==
  {CallbackSex \o v : v \in DOMAIN SexTable}
    \cup {CallbackDiabetes \o v : v \in DOMAIN DiabetesTable}
    \cup {CallbackLevel \o v : v \in DOMAIN LevelTable}
    \cup {CallbackGoal \o v : v \in DOMAIN GoalTable}
    \cup {CallbackType \o v : v \in DOMAIN TypeTable}

Tokens ==
  TableTokens \cup FieldPrefixes
    \cup {S_sexOther, S_xyz1, S_ab, S_pay, EmptyStr, CallbackAsk \o S_nutrition,
          AskUnderscore \o S_nutrition, CallbackAsk,
          CallbackAsk \o <<"e","x","e","r","c","i","s","e","s">>,
          CallbackAsk \o <<"d","i","a","b","e","t","e","s">>}

PayRefs == {"pay_123", "pay_456"}

Quiet ==
  UNCHANGED <<sessions, lastStartTime, now, procs, nEvents, out,
              processedUpdates, loop, cleaners, accepted, useFallback, handled>>

Called(op, arg, ret) ==
  /\ call.n < MaxCalls
  /\ heap' = <<ret.s>>
  /\ call' = [n |-> call.n + 1, op |-> op, arg |-> arg, pre |-> heap[1],
              resp |-> ret.resp, err |-> ret.err, fx |-> ret.fx]
  /\ Quiet

CallProcessInput ==
  \E input \in TextInputs, payOK \in BOOLEAN :
    Called("ProcessInput", input, ProcessInput(heap[1], input, payOK))

CallProcessButtonCallback ==
  \E data \in Tokens, payOK \in BOOLEAN :
    Called("ProcessButtonCallback", data, ProcessButtonCallback(heap[1], data, payOK))

CallSetPaymentCompleted ==
  \E ref \in PayRefs :
    Called("SetPaymentCompleted", ref, Ret(SetPaymentCompleted(heap[1], ref, now), "", FALSE, <<>>))

\* one of the two duplicate checks, called DupWindow seconds or less after the
\* call before it
CallCheckDuplicate ==
  \E op \in {"CheckDuplicateCommand", "CheckDuplicateCallback"},
     value \in {EmptyStr, S_slashPay, S_xyz1}, t \in now..(now + DupWindow) :
    LET chk == IF op = "CheckDuplicateCommand"
               THEN CheckDuplicateCommand(heap[1], value, t)
               ELSE CheckDuplicateCallback(heap[1], value, t)
    IN /\ call.n < MaxCalls
       /\ heap' = <<chk.s>>
       /\ call' = [n |-> call.n + 1, op |-> op, arg |-> value, pre |-> heap[1],
                   dup |-> chk.dup, t |-> t]
       /\ now' = t
       /\ UNCHANGED <<sessions, lastStartTime, procs, nEvents, out, processedUpdates, loop,
                      cleaners, accepted, useFallback, handled>>

\* the restart of handleMessage: the session is replaced by NewUserSession
CallNewUserSession ==
  Called("NewUserSession", heap[1].UserID, Ret(NewUserSession(heap[1].UserID), "", FALSE, <<>>))

InitSession ==
  /\ \/ \E st \in States : heap = <<CanonicalSession(1, st, MinMessages(st))>>
     \/ heap = <<RepeatSession(0)>>
  /\ call = NoCall
  /\ sessions = [u \in Users |-> 1]
  /\ lastStartTime = [u \in Users |-> ZeroTime]
  /\ now = 0
  /\ procs = [p \in ProcIds |-> IdleProc]
  /\ nEvents = 0
  /\ out = <<>>
  /\ processedUpdates = {}
  /\ loop = LoopStart
  /\ cleaners = 0
  /\ accepted = NoneAccepted
  /\ useFallback = FALSE
  /\ handled = <<>>

NextSession ==
  \/ CallProcessInput
  \/ CallProcessButtonCallback
  \/ CallSetPaymentCompleted
  \/ CallCheckDuplicate
  \/ CallNewUserSession

SpecSession == InitSession /\ [][NextSession]_vars

\* ------------------------------------------------------------ bot.go: Bot
\* b.api.Send of a text to a chat
Send(src, uid, msg) == Effect("send", src, uid, msg)

\* updates delivered to the bot in Spec and SpecWarm
MsgTexts == {S_slashStart, S_slashPay, S_slashPlan, S_slashFoo, S_abc}
CbTokens == {CallbackType \o S_strength, CallbackSex, S_xyz1, S_ab, S_pay}
WebhookRefs == {"pay_123", ""}

\* the outcomes of c.client.CreateChatCompletion: an answer, an error whose
\* text holds "429", one whose text holds "timeout" or "connection", any other
ApiOutcomes == {"ok", "429", "timeout", "error"}

\* A completion client that hides a failed request: no text and no error.
GetCompletion_SwallowsError(fallback, api) ==
  IF fallback \/ api \in {"429", "timeout"}
  THEN [text |-> "Fallback text", err |-> "", useFallback |-> TRUE]
  ELSE IF api = "error" THEN [text |-> "", err |-> "", useFallback |-> FALSE]
  ELSE [text |-> "Completion", err |-> "", useFallback |-> FALSE]

\* A client that answers a failed call with the fallback text but tries the
\* API again on the next call.
GetCompletion_FallbackOnce(fallback, api) ==
  IF fallback THEN [text |-> "Fallback text", err |-> "", useFallback |-> TRUE]
  ELSE IF api \in {"429", "timeout"}
  THEN [text |-> "Fallback text", err |-> "", useFallback |-> FALSE]
  ELSE IF api = "error" THEN [text |-> "", err |-> "error", useFallback |-> FALSE]
  ELSE [text |-> "Completion", err |-> "", useFallback |-> FALSE]

\* c.GetCompletion(prompt) when the API call, if made, ends as api
GetCompletion(fallback, api) ==
  IF fallback THEN [text |-> "Fallback text", err |-> "", useFallback |-> TRUE]
  ELSE IF api \in {"429", "timeout"}
  THEN [text |-> "Fallback text", err |-> "", useFallback |-> TRUE]
  ELSE IF api = "error" THEN [text |-> "", err |-> "error", useFallback |-> FALSE]
  ELSE [text |-> "Completion", err |-> "", useFallback |-> FALSE]


SessionIdle ==
  UNCHANGED <<call, processedUpdates, loop, cleaners, accepted>>

\* goroutines have no identity: a new one takes the lowest free slot
FreeSlot(p) == procs[p].pc = "idle" /\ \A q \in ProcIds : q < p => procs[q].pc # "idle"

\* Start, lines 729-730: go b.handleMessage(update.Message)
DispatchMessage ==
  \E p \in ProcIds, u \in Users, text \in MsgTexts :
    /\ nEvents < MaxEvents
    /\ FreeSlot(p)
    /\ procs' = [procs EXCEPT ![p] = [IdleProc EXCEPT !.pc = "getSession", !.kind = "msg",
                                                      !.uid = u, !.text = text]]
    /\ nEvents' = nEvents + 1
    /\ handled' = Append(handled, [kind |-> "msg", text |-> text])
    /\ out' = <<>>
    /\ UNCHANGED <<sessions, heap, lastStartTime, now, useFallback>>
    /\ SessionIdle

\* Start, lines 731-732: go b.handleCallback(update.CallbackQuery)
DispatchCallback ==
  \E p \in ProcIds, u \in Users, data \in CbTokens :
    /\ nEvents < MaxEvents
    /\ FreeSlot(p)
    /\ procs' = [procs EXCEPT ![p] = [IdleProc EXCEPT !.pc = "getSession", !.kind = "cb",
                                                      !.uid = u, !.text = data]]
    /\ nEvents' = nEvents + 1
    /\ handled' = Append(handled, [kind |-> "cb", text |-> data])
    /\ out' = <<Effect("answerCallback", "handleCallback", u, "")>>
    /\ UNCHANGED <<sessions, heap, lastStartTime, now, useFallback>>
    /\ SessionIdle

\* the HTTP server calls b.ProcessPaymentWebhook(sessionID) in a goroutine of its own
DispatchWebhook ==
  \E p \in ProcIds, ref \in WebhookRefs :
    /\ nEvents < MaxEvents
    /\ FreeSlot(p)
    /\ procs' = [procs EXCEPT ![p] = [IdleProc EXCEPT !.pc = "verify", !.kind = "pay",
                                                      !.via = "webhook", !.ref = ref]]
    /\ nEvents' = nEvents + 1
    /\ handled' = Append(handled, [kind |-> "pay", text |-> EmptyStr])
    /\ out' = <<>>
    /\ UNCHANGED <<sessions, heap, lastStartTime, now, useFallback>>
    /\ SessionIdle

\* getSession, lines 751-753: the read of b.sessions under RLock
GetSessionRead(p) ==
  /\ procs[p].pc = "getSession"
  /\ procs' = [procs EXCEPT ![p].session = sessions[procs[p].uid],
                            ![p].pc = IF sessions[procs[p].uid] = 0 THEN "create" ELSE "body"]
  /\ out' = <<>>
  /\ UNCHANGED <<sessions, heap, lastStartTime, now, nEvents, useFallback, handled>>
  /\ SessionIdle

\* Looking the key up once more under the write lock, and creating a session
\* only if it is still absent.
GetSessionCreate_Rechecks(p) ==
  /\ procs[p].pc = "create"
  /\ IF sessions[procs[p].uid] # 0
     THEN /\ procs' = [procs EXCEPT ![p].session = sessions[procs[p].uid], ![p].pc = "body"]
          /\ UNCHANGED <<heap, sessions>>
     ELSE /\ heap' = Append(heap, NewUserSession(procs[p].uid))
          /\ sessions' = [sessions EXCEPT ![procs[p].uid] = Len(heap) + 1]
          /\ procs' = [procs EXCEPT ![p].session = Len(heap) + 1, ![p].pc = "body"]
  /\ out' = <<>>
  /\ UNCHANGED <<lastStartTime, now, nEvents, useFallback, handled>>
  /\ SessionIdle

\* getSession, lines 755-761: the key was absent when read
GetSessionCreate(p) ==
  /\ procs[p].pc = "create"
  /\ heap' = Append(heap, NewUserSession(procs[p].uid))
  /\ sessions' = [sessions EXCEPT ![procs[p].uid] = Len(heap) + 1]
  /\ procs' = [procs EXCEPT ![p].session = Len(heap) + 1, ![p].pc = "body"]
  /\ out' = <<>>
  /\ UNCHANGED <<lastStartTime, now, nEvents, useFallback, handled>>
  /\ SessionIdle

\* A check that lets every /start through.
StartAllowed_Always(u) == TRUE

\* checkStartCommand(userID) returns true
StartAllowed(u) == lastStartTime[u] = ZeroTime \/ now - lastStartTime[u] > StartWindow

\* what one block of a handler leaves behind
Outcome(h, ss, lst, proc, o, uf) ==
  [heap |-> h, sessions |-> ss, lastStartTime |-> lst, proc |-> proc, out |-> o,
   useFallback |-> uf]

Commit(p, r) ==
  /\ heap' = r.heap
  /\ sessions' = r.sessions
  /\ lastStartTime' = r.lastStartTime
  /\ procs' = [procs EXCEPT ![p] = r.proc]
  /\ out' = r.out
  /\ useFallback' = r.useFallback
  /\ UNCHANGED <<nEvents, handled>>
  /\ SessionIdle

\* a block during which the goroutine does not sleep
Run(p, r) == Commit(p, r) /\ UNCHANGED now

\* sendTrainingPlan(chatID, session): the completion request and what is sent after it
SendTrainingPlan(src, s, api) ==
  LET g == GetCompletion(useFallback, api)
  IN [fx |-> <<CompletionFx("sendTrainingPlan", s.UserID, s.Data, EmptyStr)>>
               \o (IF g.err = "" THEN <<Send("sendTrainingPlan", s.UserID, g.text),
                                        Send("sendTrainingPlan", s.UserID, "Here's your program")>>
                   ELSE <<Send(src, s.UserID, "Error generating the plan")>>),
      useFallback |-> g.useFallback]

\* Asking for a completion for every free text, whatever the stage of the dialog.
WantsCompletion_AnyState(s, text) == ~IsCommand(text)

\* handleMessage, line 1122: the message goes to the completion client
WantsCompletion(s, text) == s.State = StateComplete /\ ~IsCommand(text)

\* handleMessage, lines 979-1153, run on the session fetched by getSession:
\* the limit check, the duplicate check, the command switch, ProcessInput and
\* the completion request of a completed session
MessageBody(p, payOK, dbg, api) ==
  LET me == procs[p]
      u == me.uid
      ptr == me.session
      text == me.text
      inc == IncrementMessageCount(heap[ptr])
      Put(s) == [heap EXCEPT ![ptr] = s]
      Done(s, o) == Outcome(Put(s), sessions, lastStartTime, IdleProc, o, useFallback)
      Regular(s) ==
        LET r == ProcessInput(s, text, payOK)
            g == GetCompletion(useFallback, api)
        IN IF WantsCompletion(r.s, text)
           THEN Outcome(Put(r.s), sessions, lastStartTime, IdleProc,
                        r.fx \o <<CompletionFx("handleMessage", u, r.s.Data, text),
                                  Send("handleMessage", u,
                                       IF g.err = "" THEN g.text
                                       ELSE IF g.err = "429" THEN "Request limit exceeded"
                                       ELSE "OpenAI error")>>,
                        g.useFallback)
           ELSE Outcome(Put(r.s), sessions, lastStartTime,
                        [me EXCEPT !.pc = "sendSave", !.resp = r.resp], r.fx, useFallback)
      Commanded(s) ==
        LET cmd == Command(text)
        IN IF cmd = S_start THEN
             IF ~StartAllowed(u) THEN Done(s, <<>>)
             ELSE Outcome(Append(Put(s), NewUserSession(u)),
                          [sessions EXCEPT ![u] = Len(heap) + 1],
                          [lastStartTime EXCEPT ![u] = now],
                          [me EXCEPT !.session = Len(heap) + 1, !.pc = "startPrompt"],
                          <<>>, useFallback)
           ELSE IF cmd = S_help THEN Done(s, <<Send("handleMessage", u, "Help")>>)
           ELSE IF cmd = S_pay THEN
             IF s.State # StatePayment
             THEN Done(s, <<Send("handleMessage", u, "Please first fill in your information")>>)
             ELSE LET r == ProcessInput(s, S_slashPay, payOK)
                  IN Done(r.s, r.fx \o <<Send("handleMessage", u, r.resp)>>)
           ELSE IF cmd = S_completePayment THEN
             IF ~dbg THEN Done(s, <<Send("handleMessage", u, "Unknown command")>>)
             ELSE IF s.State # StatePayment
             THEN Done(s, <<Send("handleMessage", u, "Only at the payment stage")>>)
             ELSE Outcome(Put(s), sessions, lastStartTime,
                          [me EXCEPT !.pc = "verify", !.kind = "pay", !.via = "command",
                                     !.ref = "cs_test_manual"],
                          <<>>, useFallback)
           ELSE IF cmd \in {S_getPlan, S_plan} THEN
             IF s.State # StateComplete
             THEN Done(s, <<Send("handleMessage", u, "Please first fill in and pay")>>)
             ELSE LET t == SendTrainingPlan("handleMessage", s, api)
                  IN Outcome(Put(s), sessions, lastStartTime, IdleProc,
                             <<Send("handleMessage", u, "Generating")>> \o t.fx, t.useFallback)
           ELSE Regular(s)
  IN IF ~inc.ok THEN Done(inc.s, <<Send("handleMessage", u, "Message limit reached")>>)
     ELSE IF IsCommand(text) THEN
       LET chk == CheckDuplicateCommand(inc.s, text, now)
       IN IF chk.dup THEN Done(chk.s, <<>>) ELSE Commanded(chk.s)
     ELSE IF inc.s.State = StateComplete THEN
       LET chk == CheckDuplicateCommand(inc.s, text, now)
       IN IF chk.dup THEN Done(chk.s, <<>>) ELSE Regular(chk.s)
     ELSE Regular(inc.s)

HandleMessageBody(p) ==
  /\ procs[p].pc = "body"
  /\ procs[p].kind = "msg"
  /\ \E payOK \in BOOLEAN, dbg \in BOOLEAN, api \in ApiOutcomes :
       Run(p, MessageBody(p, payOK, dbg, api))

\* handleMessage, lines 1009-1011: the opening prompt on the fresh session
StartPrompt(p) ==
  /\ procs[p].pc = "startPrompt"
  /\ \E payOK \in BOOLEAN :
       LET r == ProcessInput(heap[procs[p].session], EmptyStr, payOK)
       IN Run(p, Outcome([heap EXCEPT ![procs[p].session] = r.s], sessions, lastStartTime,
                            [procs[p] EXCEPT !.pc = "startSend", !.resp = r.resp],
                            r.fx, useFallback))

\* handleMessage, lines 1011-1020: the prompt is sent and, if that worked, the session saved
StartSend(p) ==
  /\ procs[p].pc = "startSend"
  /\ \E payOK \in BOOLEAN, sendOK \in BOOLEAN :
       LET me == procs[p]
           kb == GetKeyboardForState(heap[me.session], payOK)
       IN Run(p, Outcome(IF sendOK THEN [heap EXCEPT ![me.session].LastMessageID = 1] ELSE heap,
                            IF sendOK THEN [sessions EXCEPT ![me.uid] = me.session] ELSE sessions,
                            lastStartTime, IdleProc,
                            kb.fx \o <<Send("handleMessage", me.uid, me.resp)>>, useFallback))

\* handleMessage, lines 1155-1167, and handleCallback, lines 869-879: the
\* keyboard is built, the response sent and the session saved
SendAndSave(p) ==
  /\ procs[p].pc = "sendSave"
  /\ \E payOK \in BOOLEAN, sendOK \in BOOLEAN :
       LET me == procs[p]
           kb == GetKeyboardForState(heap[me.session], payOK)
       IN Run(p, Outcome(IF sendOK THEN [heap EXCEPT ![me.session].LastMessageID = 1] ELSE heap,
                            [sessions EXCEPT ![me.uid] = me.session],
                            lastStartTime, IdleProc,
                            kb.fx \o <<Send(IF me.kind = "cb" THEN "handleCallback" ELSE "handleMessage",
                                            me.uid, me.resp)>>,
                            useFallback))

\* handleCallback, lines 801-867, run on the session fetched by getSession
CallbackBody(p, payOK) ==
  LET me == procs[p]
      u == me.uid
      ptr == me.session
      data == me.text
      chk == CheckDuplicateCallback(heap[ptr], data, now)
      r == ProcessButtonCallback(chk.s, data, payOK)
      Put(s) == [heap EXCEPT ![ptr] = s]
      Done(s, o) == Outcome(Put(s), sessions, lastStartTime, IdleProc, o, useFallback)
      link == IF payOK THEN "Payment link" ELSE "Error creating payment"
  IN IF chk.dup THEN Done(chk.s, <<>>)
     ELSE IF data = S_pay
     THEN Done(chk.s, <<CreatePaymentFx("handleCallback", u), Send("handleCallback", u, link)>>)
     ELSE IF r.err
     THEN Done(r.s, r.fx \o <<Send("handleCallback", u, "An error occurred. Please try again.")>>)
     ELSE IF r.resp = "/pay"
     THEN Outcome(Put(r.s), IF payOK THEN [sessions EXCEPT ![u] = ptr] ELSE sessions,
                  lastStartTime, IdleProc,
                  r.fx \o <<CreatePaymentFx("handleCallback", u), Send("handleCallback", u, link)>>,
                  useFallback)
     ELSE Outcome(Put(r.s), sessions, lastStartTime,
                  [me EXCEPT !.pc = "sendSave", !.resp = r.resp],
                  r.fx \o <<Effect("edit", "handleCallback", u, "Selected")>>, useFallback)

HandleCallbackBody(p) ==
  /\ procs[p].pc = "body"
  /\ procs[p].kind = "cb"
  /\ \E payOK \in BOOLEAN : Run(p, CallbackBody(p, payOK))

\* ------------------------------------------------- payment.go / bot.go: payment
\* what Stripe knows of a checkout session: whether session.Get works, the
\* payment status and the client reference id
StripeAnswers ==
  {[found |-> FALSE, paid |-> FALSE, client |-> EmptyStr],
   [found |-> TRUE, paid |-> FALSE, client |-> <<"1">>],
   [found |-> TRUE, paid |-> TRUE, client |-> <<"1">>],
   [found |-> TRUE, paid |-> TRUE, client |-> EmptyStr]}

\* A verification that asks Stripe even when it was given no session id.
VerifyPayment_AcceptsEmptyID(sessionID, stripe, testMode) ==
  IF ~stripe.found THEN [success |-> FALSE, userID |-> EmptyStr, err |-> TRUE]
  ELSE IF testMode THEN [success |-> TRUE, userID |-> stripe.client, err |-> FALSE]
  ELSE [success |-> stripe.paid, userID |-> stripe.client, err |-> FALSE]

\* VerifyPayment(sessionID); testMode: STRIPE_TEST_MODE is "true"
VerifyPayment(sessionID, stripe, testMode) ==
  IF sessionID = "" THEN [success |-> FALSE, userID |-> EmptyStr, err |-> TRUE]
  ELSE IF ~stripe.found THEN [success |-> FALSE, userID |-> EmptyStr, err |-> TRUE]
  ELSE IF testMode THEN [success |-> TRUE, userID |-> stripe.client, err |-> FALSE]
  ELSE [success |-> stripe.paid, userID |-> stripe.client, err |-> FALSE]

\* Going on after a verification that did not confirm the payment.
PaymentConfirmed_IgnoresStatus(v) == ~v.err /\ AtoiOk(v.userID)

\* ProcessPaymentWebhook, lines 1247-1263: goes on to the session update
PaymentConfirmed(v) == ~v.err /\ v.success /\ AtoiOk(v.userID)

\* ProcessPaymentWebhook, lines 1247-1265
WebhookVerify(p) ==
  /\ procs[p].pc = "verify"
  /\ \E stripe \in StripeAnswers, testMode \in BOOLEAN :
       LET me == procs[p]
           v == VerifyPayment(me.ref, stripe, testMode)
       IN IF PaymentConfirmed(v)
          THEN Run(p, Outcome(heap, sessions, lastStartTime,
                                 [me EXCEPT !.pc = "getSession", !.uid = AtoiVal(v.userID),
                                            !.success = v.success /\ ~v.err],
                                 <<>>, useFallback))
          ELSE Run(p, Outcome(heap, sessions, lastStartTime, IdleProc,
                                 IF me.via = "command"
                                 THEN <<Send("handleMessage", me.uid, "Error emulating payment")>>
                                 ELSE <<>>,
                                 useFallback))

\* Asking for the plan at once, before the session is completed and saved.
Finalize_RequestsPlanFirst(p) ==
  /\ procs[p].pc = "body"
  /\ procs[p].kind = "pay"
  /\ \E api \in ApiOutcomes :
       LET me == procs[p]
           t == SendTrainingPlan("ProcessPaymentWebhook", heap[me.session], api)
       IN Run(p, Outcome(heap, sessions, lastStartTime, [me EXCEPT !.pc = "plan", !.t = now],
                            t.fx, t.useFallback))

\* ProcessPaymentWebhook, lines 1270-1285: the session is completed and saved,
\* the user notified, and the goroutine goes to sleep
Finalize(p) ==
  /\ procs[p].pc = "body"
  /\ procs[p].kind = "pay"
  /\ LET me == procs[p]
     IN Run(p, Outcome([heap EXCEPT ![me.session] = SetPaymentCompleted(@, me.ref, now)],
                          [sessions EXCEPT ![me.uid] = me.session], lastStartTime,
                          [me EXCEPT !.pc = "plan", !.t = now],
                          <<Send("ProcessPaymentWebhook", me.uid, "Payment successfully completed")>>,
                          useFallback))

\* ProcessPaymentWebhook, lines 1285-1296: time.Sleep(2 * time.Second) returns,
\* which puts the clock two seconds or more after the goroutine went to sleep
SendPlan(p) ==
  /\ procs[p].pc = "plan"
  /\ now' = IF now - procs[p].t >= SleepSeconds THEN now ELSE procs[p].t + SleepSeconds
  /\ \E api \in ApiOutcomes :
       LET t == SendTrainingPlan("ProcessPaymentWebhook", heap[procs[p].session], api)
       IN Commit(p, Outcome(heap, sessions, lastStartTime, IdleProc, t.fx, t.useFallback))

\* the wall clock
Tick ==
  /\ now < MaxTime
  /\ now' = now + 1
  /\ out' = <<>>
  /\ UNCHANGED <<sessions, heap, lastStartTime, procs, nEvents, useFallback, handled>>
  /\ SessionIdle

\* the process after NewBot
Init ==
  /\ sessions = [u \in Users |-> 0]
  /\ heap = <<>>
  /\ lastStartTime = [u \in Users |-> ZeroTime]
  /\ now = 0
  /\ procs = [p \in ProcIds |-> IdleProc]
  /\ nEvents = 0
  /\ out = <<>>
  /\ call = NoCall
  /\ processedUpdates = {}
  /\ loop = LoopStart
  /\ cleaners = 0
  /\ accepted = NoneAccepted
  /\ useFallback = FALSE
  /\ handled = <<>>

Next ==
  \/ DispatchMessage
  \/ DispatchCallback
  \/ DispatchWebhook
  \/ \E p \in ProcIds : GetSessionRead(p)
  \/ \E p \in ProcIds : GetSessionCreate(p)
  \/ \E p \in ProcIds : HandleMessageBody(p)
  \/ \E p \in ProcIds : StartPrompt(p)
  \/ \E p \in ProcIds : StartSend(p)
  \/ \E p \in ProcIds : SendAndSave(p)
  \/ \E p \in ProcIds : HandleCallbackBody(p)
  \/ \E p \in ProcIds : WebhookVerify(p)
  \/ \E p \in ProcIds : Finalize(p)
  \/ \E p \in ProcIds : SendPlan(p)
  \/ Tick

Spec == Init /\ [][Next]_vars

\* ----------------------------------------------------------------- SpecWarm
\* The bot met in the middle of a dialog, WarmEvents updates before the end of
\* the behaviour: either nobody has written yet, or the user has typed the
\* answers so far, padding the message count with non-numeric replies at the
\* age question; or the user has come to the payment stage by the buttons and
\* sent /pay, one second ago or just now.
WarmSessions ==
  UNION {{CanonicalSession(1, st, MinMessages(st)), CanonicalSession(1, st, MaxMessages)} :
           st \in {StateAskAge, StatePayment, StateComplete}}
    \cup {RepeatSession(t) : t \in {0 - 1, 0}}

InitWarm ==
  /\ heap \in {<<>>} \cup {<<s>> : s \in WarmSessions}
  /\ sessions = [u \in Users |-> Len(heap)]
  /\ lastStartTime = [u \in Users |-> ZeroTime]
  /\ now = 0
  /\ procs = [p \in ProcIds |-> IdleProc]
  /\ nEvents = MaxEvents - WarmEvents
  /\ out = <<>>
  /\ call = NoCall
  /\ processedUpdates = {}
  /\ loop = LoopStart
  /\ cleaners = 0
  /\ accepted = NoneAccepted
  /\ useFallback = FALSE
  /\ handled = <<>>

SpecWarm == InitWarm /\ [][Next]_vars

\* SpecWarm with a scheduler that lets every goroutine that has a session to
\* fetch, a payment to finalize or a plan to send take its next step: none of
\* these steps waits for anything but a lock held for a few statements or the
\* end of a two-second sleep.
SpecWarmLive ==
  /\ SpecWarm
  /\ \A p \in ProcIds :
       WF_vars(GetSessionRead(p) \/ GetSessionCreate(p) \/ Finalize(p) \/ SendPlan(p))


\* ----------------------------------------------------------------- SpecRace
\* Two updates of one user that arrive together at a bot with no sessions: the
\* Start loop has started a goroutine for each and none has run yet.
Events ==
  {[kind |-> "msg", text |-> t] : t \in MsgTexts}
    \cup {[kind |-> "cb", text |-> d] : d \in CbTokens}
    \cup {[kind |-> "pay", text |-> EmptyStr]}

\* the goroutine the dispatch of update e starts
HandlerOf(e) ==
  IF e.kind = "pay"
  THEN [IdleProc EXCEPT !.pc = "verify", !.kind = "pay", !.via = "webhook", !.ref = "pay_123"]
  ELSE [IdleProc EXCEPT !.pc = "getSession", !.kind = e.kind, !.uid = 1, !.text = e.text]

InitRace ==
  /\ sessions = [u \in Users |-> 0]
  /\ heap = <<>>
  /\ lastStartTime = [u \in Users |-> ZeroTime]
  /\ now = 0
  /\ \E e1 \in Events, e2 \in Events :
       /\ handled = <<e1, e2>>
       /\ procs = [p \in ProcIds |-> IF p = 1 THEN HandlerOf(e1)
                                     ELSE IF p = 2 THEN HandlerOf(e2) ELSE IdleProc]
  /\ nEvents = MaxEvents
  /\ out = <<>>
  /\ call = NoCall
  /\ processedUpdates = {}
  /\ loop = LoopStart
  /\ cleaners = 0
  /\ accepted = NoneAccepted
  /\ useFallback = FALSE

NextRace ==
  \/ \E p \in ProcIds : GetSessionRead(p)
  \/ \E p \in ProcIds : GetSessionCreate(p)
  \/ \E p \in ProcIds : HandleMessageBody(p)
  \/ \E p \in ProcIds : StartPrompt(p)
  \/ \E p \in ProcIds : StartSend(p)
  \/ \E p \in ProcIds : SendAndSave(p)
  \/ \E p \in ProcIds : HandleCallbackBody(p)
  \/ \E p \in ProcIds : WebhookVerify(p)
  \/ \E p \in ProcIds : Finalize(p)
  \/ \E p \in ProcIds : SendPlan(p)
  \/ Tick

SpecRace == InitRace /\ [][NextRace]_vars

\* ---------------------------------------------------------------- SpecDedup
\* The Start loop and the update-id cache, the handlers left out: Telegram
\* delivers the next update id, or delivers the latest or the first once more.
Count(f, id) == IF id \in DOMAIN f THEN f[id] ELSE 0
Bump(f, id) == (id :> Count(f, id) + 1) @@ f

\* Dispatching every update, the cache never consulted.
IsDuplicateUpdate_NeverSkips(id) == id \in processedUpdates /\ id = 0

\* Start, lines 710-717: the update is skipped as a duplicate
IsDuplicateUpdate(id) == id \in processedUpdates

DedupIdle ==
  UNCHANGED <<sessions, heap, lastStartTime, now, procs, out, call, useFallback, handled>>

\* Start, lines 708-717: the next update arrives and is looked up under RLock
Receive ==
  /\ loop.pc = "recv"
  /\ nEvents < MaxUpdates
  /\ \E id \in {loop.hi + 1} \cup (IF loop.hi > 0 THEN {loop.hi, 1} ELSE {}) :
       loop' = [pc |-> IF IsDuplicateUpdate(id) THEN "recv" ELSE "mark", id |-> id,
                hi |-> IF id > loop.hi THEN id ELSE loop.hi,
                skipped |-> IsDuplicateUpdate(id)]
  /\ nEvents' = nEvents + 1
  /\ UNCHANGED <<processedUpdates, cleaners, accepted>>
  /\ DedupIdle

\* Start, lines 719-722: the update is marked as processed under Lock
Mark ==
  /\ loop.pc = "mark"
  /\ processedUpdates' = processedUpdates \cup {loop.id}
  /\ accepted' = [accepted EXCEPT !.since = Bump(@, loop.id)]
  /\ loop' = [loop EXCEPT !.pc = "spawn"]
  /\ UNCHANGED <<nEvents, cleaners>>
  /\ DedupIdle

\* A size test against twice the high-water mark.
SpawnCleaner_AtTwiceHighWater ==
  /\ loop.pc = "spawn"
  /\ cleaners' = IF Cardinality(processedUpdates) > 2 * HighWater THEN cleaners + 1 ELSE cleaners
  /\ loop' = [loop EXCEPT !.pc = "dispatch"]
  /\ UNCHANGED <<nEvents, processedUpdates, accepted>>
  /\ DedupIdle

\* Start, lines 724-727: go b.cleanOldUpdates() once the cache holds more than 100 ids
SpawnCleaner ==
  /\ loop.pc = "spawn"
  /\ cleaners' = IF Cardinality(processedUpdates) > HighWater THEN cleaners + 1 ELSE cleaners
  /\ loop' = [loop EXCEPT !.pc = "dispatch"]
  /\ UNCHANGED <<nEvents, processedUpdates, accepted>>
  /\ DedupIdle

\* Start, lines 729-733: the handler goroutine of the update is started
DispatchUpdate ==
  /\ loop.pc = "dispatch"
  /\ accepted' = [accepted EXCEPT !.ever = Bump(@, loop.id)]
  /\ loop' = [loop EXCEPT !.pc = "recv"]
  /\ UNCHANGED <<nEvents, processedUpdates, cleaners>>
  /\ DedupIdle

\* A compaction that spares the id of the update the loop is working on.
CleanOldUpdates_KeepsNewest ==
  /\ cleaners > 0
  /\ cleaners' = cleaners - 1
  /\ IF Cardinality(processedUpdates) > LowWater
     THEN /\ processedUpdates' = processedUpdates \cap {loop.id}
          /\ accepted' = [accepted EXCEPT !.since = <<>>]
     ELSE UNCHANGED <<processedUpdates, accepted>>
  /\ UNCHANGED <<nEvents, loop>>
  /\ DedupIdle

\* cleanOldUpdates, lines 738-747
CleanOldUpdates ==
  /\ cleaners > 0
  /\ cleaners' = cleaners - 1
  /\ IF Cardinality(processedUpdates) > LowWater
     THEN /\ processedUpdates' = {}
          /\ accepted' = [accepted EXCEPT !.since = <<>>]
     ELSE UNCHANGED <<processedUpdates, accepted>>
  /\ UNCHANGED <<nEvents, loop>>
  /\ DedupIdle

NextDedup ==
  \/ Receive
  \/ Mark
  \/ SpawnCleaner
  \/ DispatchUpdate
  \/ CleanOldUpdates

SpecDedup == Init /\ [][NextDedup]_vars

\* SpecDedup with a scheduler that runs every started cleanOldUpdates goroutine
\* and lets the Start loop go from marking an update to the size test that
\* follows it, which waits for nothing.
SpecDedupLive == SpecDedup /\ WF_vars(SpawnCleaner) /\ WF_vars(CleanOldUpdates)


\* ------------------------------------------------------------------ claims
\* the goroutine p takes the step that leaves its block pc
Leaves(p, pc) == procs[p].pc = pc /\ procs'[p].pc # pc

\* C1: while no /start has restarted the dialog of an identity, at most one
\* UserSession has been created for it and every handler that holds a session
\* of that identity holds the same one.
C1_OneSessionPerIdentity ==
  \A u \in Users :
    lastStartTime[u] = ZeroTime =>
      /\ Cardinality({o \in DOMAIN heap : heap[o].UserID = u}) <= 1
      /\ \A p, q \in ProcIds :
           (procs[p].uid = u /\ procs[q].uid = u /\ procs[p].session # 0 /\ procs[q].session # 0)
             => procs[p].session = procs[q].session

\* C2: every step that changes the State of a session moves it to a later
\* state of the declared order (a restart installs a new session instead).
C2_StateOnlyAdvances ==
  [][\A o \in DOMAIN heap :
       heap'[o].State # heap[o].State => heap'[o].State > heap[o].State]_vars

\* C3: a session enters StateComplete only by the finalization step of
\* ProcessPaymentWebhook, run by a goroutine whose VerifyPayment call returned
\* success without error; sessions are never created complete.
C3_CompleteOnlyByFinalization ==
  [][\A o \in DOMAIN heap' :
       (heap'[o].State = StateComplete /\ (o \notin DOMAIN heap \/ heap[o].State # StateComplete))
         => \E p \in ProcIds :
              /\ Leaves(p, "body")
              /\ procs[p].kind = "pay"
              /\ procs[p].success
              /\ procs[p].session = o]_vars

\* a finalization has completed a session that had not reached the payment question
C3_Witness ==
  \E p \in ProcIds :
    /\ procs[p].pc = "plan"
    /\ heap[procs[p].session].State = StateComplete
    /\ heap[procs[p].session].Data.FitnessType = EmptyStr

\* C4: a /start that is neither a repeated command within the duplicate window
\* nor within the start window of the previous /start replaces the stored
\* session by a fresh one in StateInitial with empty data, and the opening
\* prompt moves that session to StateAskSex.
C4_StartAlwaysRestarts ==
  [][\A p \in ProcIds :
       /\ (/\ Leaves(p, "body")
           /\ procs[p].kind = "msg"
           /\ Command(procs[p].text) = S_start
           /\ ~CheckDuplicateCommand(heap[procs[p].session], procs[p].text, now).dup
           /\ StartAllowed(procs[p].uid))
          => /\ sessions'[procs[p].uid] \notin DOMAIN heap
             /\ heap'[sessions'[procs[p].uid]] = NewUserSession(procs[p].uid)
       /\ Leaves(p, "startPrompt") => heap'[procs[p].session].State = StateAskSex]_vars

\* the state whose question fills in field f
AskingState(f) ==
  CASE f = "Sex" -> StateAskSex [] f = "Age" -> StateAskAge [] f = "Height" -> StateAskHeight
    [] f = "Weight" -> StateAskWeight [] f = "Diabetes" -> StateAskDiabetes
    [] f = "Level" -> StateAskLevel [] f = "FitnessGoal" -> StateAskGoal
    [] f = "FitnessType" -> StateAskType

\* C5: a question field of a session changes only in a step taken from the
\* state that asks for it, and only while it is still unset.
C5_FieldWrittenOnceByItsQuestion ==
  [][\A o \in DOMAIN heap : \A f \in QuestionFields :
       heap'[o].Data[f] # heap[o].Data[f]
         => heap[o].State = AskingState(f) /\ heap[o].Data[f] = EmptyData[f]]_vars

\* an optional sign followed by one or more decimal digits
IsIntegerText(input) ==
  \E sign \in {<<>>, <<"+">>, <<"-">>} :
    /\ Len(input) > Len(sign)
    /\ SubSeq(input, 1, Len(sign)) = sign
    /\ \A i \in (Len(sign) + 1)..Len(input) : input[i] \in Digits

RetryPrompt(st) ==
  CASE st = StateAskAge -> "Please enter age in digits"
    [] st = StateAskHeight -> "Please enter height in digits"
    [] st = StateAskWeight -> "Please enter weight in digits"

\* C6: ProcessInput at the age, height or weight question with an input that is
\* not an integer leaves the session as it was, returns the retry prompt of
\* that question and returns no error.
C6_NonNumericRetry ==
  (/\ call.op = "ProcessInput"
   /\ call.pre.State \in {StateAskAge, StateAskHeight, StateAskWeight}
   /\ ~IsIntegerText(call.arg))
    => /\ heap[1].State = call.pre.State
       /\ heap[1].Data = call.pre.Data
       /\ call.resp = RetryPrompt(call.pre.State)
       /\ ~call.err

\* a non-numeric weight has been rejected
C6_Witness ==
  /\ call.op = "ProcessInput"
  /\ call.pre.State = StateAskWeight
  /\ call.arg = S_12a
  /\ call.resp = "Please enter weight in digits"
  /\ heap[1] = call.pre

\* some prefix of the translator, field or follow-up, opens the token
HasKnownPrefix(data) ==
  \E pre \in FieldPrefixes \cup {CallbackAsk, AskUnderscore} : HasPrefix(data, pre)

\* C7: a handleCallback run on a token that is a bare field prefix, or that
\* opens with no known prefix, leaves the State of the session unchanged.
C7_BadTokenKeepsState ==
  [][\A p \in ProcIds :
       (/\ Leaves(p, "body")
        /\ procs[p].kind = "cb"
        /\ (procs[p].text \in FieldPrefixes \/ ~HasKnownPrefix(procs[p].text)))
         => heap'[procs[p].session].State = heap[procs[p].session].State]_vars

\* the tables of ProcessButtonCallback as the claim reads them: prefix, value,
\* the field written, the value stored
ChoiceTable ==
  {<<CallbackSex, S_male, "Sex", S_male>>, <<CallbackSex, S_female, "Sex", S_female>>,
   <<CallbackDiabetes, S_yes, "Diabetes", S_yes>>, <<CallbackDiabetes, S_no, "Diabetes", S_no>>,
   <<CallbackLevel, S_beginner, "Level", S_beginner>>,
   <<CallbackLevel, S_intermediate, "Level", S_intermediate>>,
   <<CallbackLevel, S_advanced, "Level", S_advanced>>,
   <<CallbackGoal, S_weight_loss, "FitnessGoal", S_weightLoss>>,
   <<CallbackGoal, S_muscle_gain, "FitnessGoal", S_muscleGain>>,
   <<CallbackGoal, S_maintenance, "FitnessGoal", S_maintenance>>,
   <<CallbackGoal, S_endurance, "FitnessGoal", S_enduranceImprovement>>,
   <<CallbackType, S_strength, "FitnessType", S_strength>>,
   <<CallbackType, S_cardio, "FitnessType", S_cardio>>,
   <<CallbackType, S_mixed, "FitnessType", S_mixed>>,
   <<CallbackType, S_yoga, "FitnessType", S_yoga>>,
   <<CallbackType, S_pilates, "FitnessType", S_pilates>>,
   <<CallbackType, S_other, "FitnessType", S_other>>}

\* C8: ProcessButtonCallback on prefix+value, for every value of every table,
\* stores the table's canonical value in the field of the prefix and leaves
\* every other field of the data as it was.
C8_ChoiceStoresCanonicalValue ==
  \A c \in ChoiceTable :
    (call.op = "ProcessButtonCallback" /\ call.arg = c[1] \o c[2])
      => /\ heap[1].Data = [call.pre.Data EXCEPT ![c[3]] = c[4]]
         /\ ~call.err

\* the goal button "weight_loss" has stored "weight loss"
C8_Witness ==
  /\ call.op = "ProcessButtonCallback"
  /\ call.arg = CallbackGoal \o S_weight_loss
  /\ call.pre.Data.FitnessGoal = EmptyStr
  /\ heap[1].Data.FitnessGoal = S_weightLoss

Requests(o, type) == {i \in DOMAIN o : o[i].type = type}

\* C11: a free-text message, within the message limit, to a session at
\* StatePayment leaves State at StatePayment and makes no CreatePayment call,
\* neither when the input is processed nor when the answer is sent.
C11_NoLinkRequestOnOtherInput ==
  [][\A p \in ProcIds :
       /\ (/\ Leaves(p, "body")
           /\ procs[p].kind = "msg"
           /\ heap[procs[p].session].State = StatePayment
           /\ ~IsCommand(procs[p].text)
           /\ IncrementMessageCount(heap[procs[p].session]).ok)
            => /\ heap'[procs[p].session].State = StatePayment
               /\ Requests(out', "createPayment") = {}
       /\ (/\ Leaves(p, "sendSave")
           /\ procs[p].kind = "msg"
           /\ procs[p].resp = "Collected. Click the button or enter /pay")
            => Requests(out', "createPayment") = {}]_vars

\* C12: a handleCallback run on the token "pay" that is not dropped as a
\* duplicate calls CreatePayment exactly when the session is at StatePayment,
\* the state at which the /pay command does.
C12_PayTokenLikePayCommand ==
  [][\A p \in ProcIds :
       (/\ Leaves(p, "body")
        /\ procs[p].kind = "cb"
        /\ procs[p].text = S_pay
        /\ ~CheckDuplicateCallback(heap[procs[p].session], procs[p].text, now).dup)
         => (Requests(out', "createPayment") # {}
               <=> heap[procs[p].session].State = StatePayment)]_vars

\* the tokens of the follow-up family: "ask:" or "ask_" and a topic
IsAskToken(data) ==
  \E pre \in {CallbackAsk, AskUnderscore} : HasPrefix(data, pre) /\ Len(data) > Len(pre)

\* C13: ProcessButtonCallback rejects neither the token "pay" nor a token of
\* the follow-up family as malformed or unknown, and answers a follow-up token
\* with the answer on its topic.
C13_SpecialTokensNeverRejected ==
  call.op = "ProcessButtonCallback" =>
    /\ (call.arg = S_pay \/ IsAskToken(call.arg))
         => call.resp \notin {"Invalid data", "Unknown command"}
    /\ IsAskToken(call.arg)
         => /\ ~call.err
            /\ call.resp = GetAskQuestionAnswer(call.pre, SliceFrom(call.arg, 4))
            /\ heap[1] = call.pre

\* C14: a session object at StateComplete stays at StateComplete in every step
\* (a restart puts a new object in the store and leaves the old one alone).
C14_CompleteIsSink ==
  [][\A o \in DOMAIN heap :
       heap[o].State = StateComplete => heap'[o].State = StateComplete]_vars

C16_FinalizeForcesComplete ==
  [][\A p \in ProcIds :
       (Leaves(p, "body") /\ procs[p].kind = "pay")
         => /\ procs[p].session \in DOMAIN heap
            /\ procs[p].success
            /\ heap'[procs[p].session].State = StateComplete
            /\ heap'[procs[p].session].Data.PaymentID = procs[p].ref
            /\ sessions'[procs[p].uid] = procs[p].session]_vars

\* a payment has been finalized for an identity that had no session
C16_Witness ==
  \E p \in ProcIds :
    /\ procs[p].pc = "plan"
    /\ procs[p].via = "webhook"
    /\ sessions[procs[p].uid] = procs[p].session
    /\ heap[procs[p].session].State = StateComplete
    /\ heap[procs[p].session].Data.PaymentID = "pay_123"
    /\ heap[procs[p].session].Data.Sex = EmptyStr
    /\ heap[procs[p].session].MessageCount = 0

\* C17: SetPaymentCompleted(r) applied to its own result gives the same State
\* (StateComplete), the same payment reference r and the same question fields.
C17_FinalizeIdempotent ==
  call.op = "SetPaymentCompleted" =>
    LET once == heap[1]
        twice == SetPaymentCompleted(once, call.arg, now + 1)
    IN /\ once.State = StateComplete
       /\ twice.State = once.State
       /\ once.Data.PaymentID = call.arg
       /\ twice.Data.PaymentID = once.Data.PaymentID
       /\ \A f \in QuestionFields :
            twice.Data[f] = once.Data[f] /\ once.Data[f] = call.pre.Data[f]

\* a session in the middle of the questions has been finalized
C17_Witness ==
  /\ call.op = "SetPaymentCompleted"
  /\ call.arg = "pay_456"
  /\ call.pre.State = StateAskWeight
  /\ heap[1].State = StateComplete
  /\ heap[1].Data.Height = 175

\* every handler goroutine has finished
AllIdle == \A p \in ProcIds : procs[p].pc = "idle"

\* handleCallback run alone on session s at time t: what it leaves in s.  A
\* repeat inside the duplicate window is dropped, which gives the same State
\* and Data as translating the same token a second time.
SerialCallback(s, data, t) ==
  LET chk == CheckDuplicateCallback(s, data, t)
  IN IF chk.dup \/ data = S_pay THEN chk.s ELSE ProcessButtonCallback(chk.s, data, TRUE).s

\* the orders in which n handlers can run one after the other
Orders(n) == {f \in [1..n -> 1..n] : \A i, j \in 1..n : i # j => f[i] # f[j]}

RECURSIVE SerialFrom(_, _, _, _)
SerialFrom(s, ev, f, i) ==
  IF i > Len(ev) THEN s ELSE SerialFrom(SerialCallback(s, ev[f[i]].text, 0), ev, f, i + 1)

\* the sessions a first contact by the button presses ev can end with when
\* their handlers run one at a time
SerialResults(ev) == {SerialFrom(NewUserSession(1), ev, f, 1) : f \in Orders(Len(ev))}

\* C18: once the handlers of button presses that arrived together have all
\* finished, State and Data of the stored session are those some one-at-a-time
\* order of the same handlers leaves.
C18_ConcurrentAsSomeSerialOrder ==
  (AllIdle /\ \A i \in DOMAIN handled : handled[i].kind = "cb")
    => \E r \in SerialResults(handled) :
         /\ heap[sessions[1]].State = r.State
         /\ heap[sessions[1]].Data = r.Data

\* C19: nothing ties what a handler fetched to what it saves.  getSession
\* stores a new session when its read found none, whatever the store holds by
\* the time it writes, and the save at the end of a handler stores the handler's
\* own session, whatever the store holds by then and without touching any
\* other session object.
C19_FetchAndSaveUnguarded ==
  [][\A p \in ProcIds :
       /\ Leaves(p, "create")
            => /\ procs'[p].session \notin DOMAIN heap
               /\ heap'[procs'[p].session] = NewUserSession(procs[p].uid)
               /\ sessions'[procs[p].uid] = procs'[p].session
       /\ Leaves(p, "sendSave")
            => /\ sessions'[procs[p].uid] = procs[p].session
               /\ \A o \in DOMAIN heap : o # procs[p].session => heap'[o] = heap[o]]_vars

\* a message and a button press were handled together and both handlers have
\* finished: the press stored "strength" in a session of the user, and the
\* session left in the store, the one the message handler saved, has no
\* fitness type
C19_Witness ==
  /\ AllIdle
  /\ lastStartTime[1] = ZeroTime
  /\ handled = <<[kind |-> "msg", text |-> S_abc], [kind |-> "cb", text |-> CallbackType \o S_strength]>>
  /\ heap[sessions[1]].Data.FitnessType = EmptyStr
  /\ heap[sessions[1]].State = StateAskSex
  /\ \E o \in DOMAIN heap : heap[o].UserID = 1 /\ heap[o].Data.FitnessType = S_strength

\* a token ProcessButtonCallback rejects: too short, or opening with no prefix
\* it knows
IsBadToken(data) == Len(data) < MinCallbackLen \/ ~HasKnownPrefix(data)

\* what handleCallback does with a rejected token
RejectedByHandler(p) ==
  /\ \A payOK \in BOOLEAN :
       ProcessButtonCallback(heap[procs[p].session], procs[p].text, payOK).err
  /\ out' = <<Send("handleCallback", procs[p].uid, "An error occurred. Please try again.")>>
  /\ heap'[procs[p].session].State = heap[procs[p].session].State
  /\ heap'[procs[p].session].Data = heap[procs[p].session].Data

\* C20 as claimed: every token shorter than 4 characters or without a known
\* prefix, if not dropped as a duplicate, is rejected by ProcessButtonCallback
\* and answered with the generic failure message, State and Data unchanged.
C20_EveryBadTokenRejected ==
  [][\A p \in ProcIds :
       (/\ Leaves(p, "body")
        /\ procs[p].kind = "cb"
        /\ IsBadToken(procs[p].text)
        /\ ~CheckDuplicateCallback(heap[procs[p].session], procs[p].text, now).dup)
         => RejectedByHandler(p)]_vars

\* C20, amended: the same for every such token other than "pay", which
\* handleCallback answers itself before it calls ProcessButtonCallback.
C20_BadTokenButPayRejected ==
  [][\A p \in ProcIds :
       (/\ Leaves(p, "body")
        /\ procs[p].kind = "cb"
        /\ IsBadToken(procs[p].text)
        /\ procs[p].text # S_pay
        /\ ~CheckDuplicateCallback(heap[procs[p].session], procs[p].text, now).dup)
         => RejectedByHandler(p)]_vars

\* the unknown token "xyz:1" has been answered with the failure message, the
\* session still complete
C20_Witness ==
  /\ AllIdle
  /\ handled # <<>>
  /\ handled[Len(handled)] = [kind |-> "cb", text |-> S_xyz1]
  /\ out = <<Send("handleCallback", 1, "An error occurred. Please try again.")>>
  /\ heap[sessions[1]].State = StateComplete
  /\ heap[sessions[1]].Data = CanonicalData(StateComplete)

C22_FailedCallKeepsSession ==
  [][\A p \in ProcIds :
       LET me == procs[p]
           u == me.uid
           s == heap[me.session]
           kept == /\ heap'[me.session].State = s.State
                   /\ heap'[me.session].Data = s.Data
           repeat == me.text = s.LastCommand /\ now - s.LastCommandTime < DupWindow
       IN (/\ Leaves(p, "body")
           /\ me.kind = "msg"
           /\ IncrementMessageCount(s).ok
           /\ ~repeat)
            => /\ (me.text = S_slashPay /\ s.State = StatePayment)
                    => /\ kept
                       /\ Len(out') = 2
                       /\ out'[1] = CreatePaymentFx("ProcessInput", u)
                       /\ out'[2] \in {Send("handleMessage", u, "Payment link"),
                                       Send("handleMessage", u, "Error creating payment")}
               /\ (~IsCommand(me.text) /\ s.State = StateComplete)
                    => /\ kept
                       /\ Len(out') = 2
                       /\ out'[1] = CompletionFx("handleMessage", u, s.Data, me.text)
                       /\ out'[2] \in {Send("handleMessage", u, "Completion"),
                                       Send("handleMessage", u, "Fallback text"),
                                       Send("handleMessage", u, "OpenAI error")}
               /\ (me.text = S_slashPlan /\ s.State = StateComplete)
                    => /\ kept
                       /\ Len(out') \in {3, 4}
                       /\ out'[1] = Send("handleMessage", u, "Generating")
                       /\ out'[2] = CompletionFx("sendTrainingPlan", u, s.Data, EmptyStr)
                       /\ IF Len(out') = 3
                          THEN out'[3] = Send("handleMessage", u, "Error generating the plan")
                          ELSE /\ out'[3] \in {Send("sendTrainingPlan", u, "Completion"),
                                               Send("sendTrainingPlan", u, "Fallback text")}
                               /\ out'[4] = Send("sendTrainingPlan", u, "Here's your program")]_vars

\* /plan has just been handled on a completed session, the plan request having failed
C22_Witness ==
  /\ Len(out) = 3
  /\ out[2] = CompletionFx("sendTrainingPlan", 1, CanonicalData(StateComplete), EmptyStr)
  /\ out[3] = Send("handleMessage", 1, "Error generating the plan")
  /\ heap[sessions[1]].State = StateComplete
  /\ heap[sessions[1]].Data = CanonicalData(StateComplete)

\* C23: when handleMessage is about to pass a free text of a completed session to
\* a completion client that still calls the API, a request that ends with the
\* rate-limit error (429) makes the handler send "Request limit exceeded", and
\* no request that fails in another way makes it send the same message.
C23_RateLimitHasOwnMessage ==
  \A p \in ProcIds :
    (/\ procs[p].pc = "body"
     /\ procs[p].kind = "msg"
     /\ ~IsCommand(procs[p].text)
     /\ heap[procs[p].session].State = StateComplete
     /\ IncrementMessageCount(heap[procs[p].session]).ok
     /\ ~CheckDuplicateCommand(heap[procs[p].session], procs[p].text, now).dup
     /\ ~useFallback)
      => LET Delivered(api) == MessageBody(p, TRUE, FALSE, api).out[2].msg
         IN /\ Delivered("429") = "Request limit exceeded"
            /\ \A api \in ApiOutcomes \ {"ok", "429"} : Delivered(api) # Delivered("429")

\* C24: ProcessButtonCallback on a token that starts with "ask:", whatever the
\* State of the session, returns no error, asks for nothing and leaves the
\* session, State and every Data field included, as it was; the answer is the
\* one a blank session holding the same Data gives for the same topic.
C24_AskTokenOnlyReads ==
  (call.op = "ProcessButtonCallback" /\ HasPrefix(call.arg, CallbackAsk))
    => /\ heap[1] = call.pre
       /\ ~call.err
       /\ call.fx = <<>>
       /\ call.resp = GetAskQuestionAnswer([NewUserSession(1) EXCEPT !.Data = call.pre.Data],
                                           SliceFrom(call.arg, Len(CallbackAsk)))

\* ask:diabetes answered at StateAskLevel after the diabetes question was answered yes
C24_Witness ==
  /\ call.op = "ProcessButtonCallback"
  /\ call.arg = CallbackAsk \o <<"d","i","a","b","e","t","e","s">>
  /\ call.resp = "WORKOUTS WITH DIABETES: main recommendations"
  /\ heap[1].State = StateAskLevel
  /\ heap[1].Data.Diabetes = S_yes

\* C25: a payment confirmation whose verification succeeds and names a user goes
\* on to fetch the session; its next block sets the session to StateComplete,
\* saves it under the identity and asks for no completion; only that block
\* leads to the sleep before the plan; and the block after the sleep starts,
\* SleepSeconds or more later, with the plan request for the profile of that
\* session. Under SpecWarmLive every confirmation that has gone on reaches the
\* sleep, and every sleep ends with the plan request.
C25_FinalizeThenPlan ==
  /\ [][\A p \in ProcIds :
          LET me == procs[p]
          IN /\ (Leaves(p, "verify") /\ procs'[p].pc # "idle")
                  => procs'[p].pc = "getSession" /\ procs'[p].kind = "pay"
             /\ (Leaves(p, "body") /\ me.kind = "pay")
                  => /\ procs'[p].pc = "plan"
                     /\ heap'[me.session].State = StateComplete
                     /\ sessions'[me.uid] = me.session
                     /\ Requests(out', "completion") = {}
             /\ (procs'[p].pc = "plan" /\ me.pc # "plan")
                  => me.pc = "body" /\ me.kind = "pay"
             /\ Leaves(p, "plan")
                  => /\ procs'[p].pc = "idle"
                     /\ now' - me.t >= SleepSeconds
                     /\ out'[1] = CompletionFx("sendTrainingPlan", me.uid,
                                               heap[me.session].Data, EmptyStr)]_vars
  /\ \A p \in ProcIds : (procs[p].kind = "pay" /\ procs[p].pc = "getSession") ~> (procs[p].pc = "plan")
  /\ \A p \in ProcIds : (procs[p].pc = "plan") ~> (procs[p].pc = "idle")

\* a confirmed webhook has finalized the payment, slept and asked for the plan
C25_Witness ==
  /\ handled = <<[kind |-> "pay", text |-> EmptyStr]>>
  /\ AllIdle
  /\ Len(out) >= 2
  /\ out[1].type = "completion"
  /\ out[1].src = "sendTrainingPlan"
  /\ heap[sessions[1]].State = StateComplete
  /\ now >= SleepSeconds

\* C26: the Age, Height and Weight of the session are never negative, and a
\* ProcessInput call that leaves StateAskAge, StateAskHeight or StateAskWeight
\* has stored a number greater than zero in the field of that question.
C26_StoredNumbersPositive ==
  /\ \A f \in {"Age", "Height", "Weight"} : heap[1].Data[f] >= 0
  /\ (/\ call.op = "ProcessInput"
      /\ call.pre.State \in {StateAskAge, StateAskHeight, StateAskWeight}
      /\ heap[1].State # call.pre.State)
       => LET f == CASE call.pre.State = StateAskAge -> "Age"
                     [] call.pre.State = StateAskHeight -> "Height"
                     [] call.pre.State = StateAskWeight -> "Weight"
          IN heap[1].Data[f] > 0

\* C27: every handleMessage run counts its message on the session it fetched. A
\* message that finds fewer than MaxMessages counted is not answered with the
\* limit notice; one that finds MaxMessages or more is answered with the limit
\* notice and nothing else, asks no collaborator for anything, and leaves State,
\* Data, the store and the /start times as they were. A handleCallback run
\* leaves the count as it was and never sends the limit notice.
C27_LimitOfTenMessages ==
  [][\A p \in ProcIds :
       LET me == procs[p]
           s == heap[me.session]
           notice == Send("handleMessage", me.uid, "Message limit reached")
       IN /\ (Leaves(p, "body") /\ me.kind = "msg")
               => /\ heap'[me.session].MessageCount = s.MessageCount + 1
                  /\ IF s.MessageCount < MaxMessages
                     THEN \A i \in DOMAIN out' : out'[i] # notice
                     ELSE /\ out' = <<notice>>
                          /\ procs'[p].pc = "idle"
                          /\ heap'[me.session].State = s.State
                          /\ heap'[me.session].Data = s.Data
                          /\ sessions' = sessions
                          /\ lastStartTime' = lastStartTime
          /\ (Leaves(p, "body") /\ me.kind = "cb")
               => /\ heap'[me.session].MessageCount = s.MessageCount
                  /\ \A i \in DOMAIN out' : out'[i].msg # "Message limit reached"]_vars

\* the eleventh message of a session at the payment stage, /pay, has been refused
C27_Witness ==
  /\ handled = <<[kind |-> "msg", text |-> S_slashPay]>>
  /\ AllIdle
  /\ out = <<Send("handleMessage", 1, "Message limit reached")>>
  /\ heap[sessions[1]].MessageCount = MaxMessages + 1
  /\ heap[sessions[1]].State = StatePayment

\* C28: a ProcessInput call never moves State by more than one step of the
\* declared order. At StateInitial any input gives StateAskSex and the opening
\* prompt, nothing else changing; at the sex, diabetes, level, goal and type
\* questions the input is stored as it is in the field of the question and State
\* advances by one; at the age, height and weight questions an integer input is
\* stored as its value and State advances by one ("70" at StateAskWeight gives
\* Weight 70 and StateAskDiabetes). Nine such calls take a new session from
\* StateInitial to StatePayment, one state at a time.
C28_OneStepPerAcceptedInput ==
  /\ call.op = "ProcessInput"
       => LET pre == call.pre
              st == pre.State
              TextField == CASE st = StateAskSex -> "Sex"
                             [] st = StateAskDiabetes -> "Diabetes"
                             [] st = StateAskLevel -> "Level"
                             [] st = StateAskGoal -> "FitnessGoal"
                             [] st = StateAskType -> "FitnessType"
              NumberField == CASE st = StateAskAge -> "Age"
                               [] st = StateAskHeight -> "Height"
                               [] st = StateAskWeight -> "Weight"
              Value == CASE call.arg = S_70 -> 70
                         [] call.arg = S_minus5 -> 0 - 5
                         [] call.arg = S_plus7 -> 7
                         [] call.arg = S_0 -> 0
          IN /\ heap[1].State \in {st, st + 1}
             /\ st = StateInitial
                  => /\ heap[1] = [pre EXCEPT !.State = StateAskSex]
                     /\ call.resp = "Opening. Specify your gender:"
             /\ st \in {StateAskSex, StateAskDiabetes, StateAskLevel, StateAskGoal, StateAskType}
                  => heap[1] = [pre EXCEPT !.Data[TextField] = call.arg, !.State = st + 1]
             /\ (st \in {StateAskAge, StateAskHeight, StateAskWeight} /\ IsIntegerText(call.arg))
                  => heap[1] = [pre EXCEPT !.Data[NumberField] = Value, !.State = st + 1]
  /\ LET Step(s, input) == ProcessInput(s, input, TRUE).s
         s1 == Step(NewUserSession(1), EmptyStr)
         s2 == Step(s1, S_male)
         s3 == Step(s2, S_70)
         s4 == Step(s3, S_70)
         s5 == Step(s4, S_70)
         s6 == Step(s5, S_no)
         s7 == Step(s6, S_beginner)
         s8 == Step(s7, S_maintenance)
         s9 == Step(s8, S_strength)
     IN /\ <<s1.State, s2.State, s3.State, s4.State, s5.State, s6.State, s7.State, s8.State>>
             = <<StateAskSex, StateAskAge, StateAskHeight, StateAskWeight, StateAskDiabetes,
                 StateAskLevel, StateAskGoal, StateAskType>>
        /\ s9.State = StatePayment
        /\ s9.Data = [EmptyData EXCEPT !.Sex = S_male, !.Age = 70, !.Height = 70, !.Weight = 70,
                                       !.Diabetes = S_no, !.Level = S_beginner,
                                       !.FitnessGoal = S_maintenance, !.FitnessType = S_strength]

\* "70" has been typed at the weight question
C28_Witness ==
  /\ call.op = "ProcessInput"
  /\ call.pre.State = StateAskWeight
  /\ call.arg = S_70
  /\ heap[1].Data.Weight = 70
  /\ heap[1].State = StateAskDiabetes

\* C29: CheckDuplicateCommand(c) called at time t returns true exactly when c is
\* not empty, equals LastCommand and t is less than DupWindow seconds after
\* LastCommandTime; CheckDuplicateCallback the same with LastCallback and the
\* same LastCommandTime. A check that returns true leaves the session as it was;
\* one that returns false records c in its own field and t in LastCommandTime,
\* the one time both checks compare with, and changes nothing else.
C29_ChecksShareOneTimestamp ==
  call.op \in {"CheckDuplicateCommand", "CheckDuplicateCallback"}
    => LET pre == call.pre
           last == IF call.op = "CheckDuplicateCommand" THEN pre.LastCommand
                   ELSE pre.LastCallback
       IN /\ call.dup <=> /\ call.arg # EmptyStr
                          /\ call.arg = last
                          /\ call.t - pre.LastCommandTime < DupWindow
          /\ call.dup => heap[1] = pre
          /\ ~call.dup
               => heap[1] = IF call.op = "CheckDuplicateCommand"
                            THEN [pre EXCEPT !.LastCommand = call.arg, !.LastCommandTime = call.t]
                            ELSE [pre EXCEPT !.LastCallback = call.arg, !.LastCommandTime = call.t]

\* /pay, recorded at time 0, is found a repeat two seconds later, a token having
\* been checked at time 1
C29_Witness ==
  /\ call.op = "CheckDuplicateCommand"
  /\ call.arg = S_slashPay
  /\ call.dup
  /\ call.t = DupWindow
  /\ call.pre.LastCallback = S_xyz1
  /\ call.pre.LastCommandTime = 1

C31_EventuallyCompacted ==
  (Cardinality(processedUpdates) > HighWater) ~> (Cardinality(processedUpdates) <= LowWater)

\* the cache has been emptied after it held 101 ids, and the loop has gone on
C31_Witness ==
  /\ loop.hi > HighWater
  /\ loop.pc = "recv"
  /\ cleaners = 0
  /\ Cardinality(processedUpdates) <= LowWater

\* C32: no run of ProcessPaymentWebhook finalizes a payment reference that the
\* session it works on has already been completed with.
C32_ReferenceFinalizedOnce ==
  [][\A p \in ProcIds :
       (Leaves(p, "body") /\ procs[p].kind = "pay")
         => ~(/\ heap[procs[p].session].State = StateComplete
              /\ heap[procs[p].session].Data.PaymentID = procs[p].ref)]_vars

\* C33: a ProcessButtonCallback call on a token that opens with a field prefix,
\* made while State is not the question of that prefix, leaves State and Data
\* as they were.
C33_StaleButtonIgnored ==
  (/\ call.op = "ProcessButtonCallback"
   /\ Len(call.arg) >= MinCallbackLen
   /\ ~HasPrefix(call.arg, AskUnderscore)
   /\ FieldPrefixOf(call.arg) # EmptyStr
   /\ call.pre.State # (CASE FieldPrefixOf(call.arg) = CallbackSex -> StateAskSex
                          [] FieldPrefixOf(call.arg) = CallbackDiabetes -> StateAskDiabetes
                          [] FieldPrefixOf(call.arg) = CallbackLevel -> StateAskLevel
                          [] FieldPrefixOf(call.arg) = CallbackGoal -> StateAskGoal
                          [] FieldPrefixOf(call.arg) = CallbackType -> StateAskType))
    => /\ heap[1].State = call.pre.State
       /\ heap[1].Data = call.pre.Data

\* C34: every session on the heap, stored or not, whose State is StateComplete
\* has a PaymentID that is not the empty string.
C34_CompleteHasReference ==
  \A i \in DOMAIN heap : heap[i].State = StateComplete => heap[i].Data.PaymentID # ""

\* a confirmation has completed the session of a user who was at the age question
C34_Witness ==
  /\ sessions[1] \in DOMAIN heap
  /\ heap[sessions[1]].State = StateComplete
  /\ heap[sessions[1]].Data.PaymentID = "pay_123"
  /\ heap[sessions[1]].Data.Weight = 0
  /\ heap[sessions[1]].Data.Sex = S_male

\* C35: once a /start of an identity has been accepted, and with it the fresh
\* session stored, no step puts back in the store of that identity a session
\* object older than the one the store holds (objects are numbered in the
\* order of their creation).
C35_RestartNotUndone ==
  [][\A u \in Users :
       lastStartTime[u] # ZeroTime => sessions'[u] >= sessions[u]]_vars

\* C36: a handleMessage run of /start either restarts the dialog, and then the
\* identity had no accepted /start yet or the last one is more than StartWindow
\* seconds old, the time of this one is recorded and a new session object is
\* stored; or it ends at once, creating no session, leaving the store and the
\* recorded time as they were and sending no prompt. No other step records a
\* /start time.
C36_OneRestartPerWindow ==
  [][/\ \A p \in ProcIds :
          LET me == procs[p]
              u == me.uid
          IN (Leaves(p, "body") /\ me.kind = "msg" /\ me.text = S_slashStart)
               => IF procs'[p].pc = "startPrompt"
                  THEN /\ lastStartTime[u] = ZeroTime \/ now - lastStartTime[u] > StartWindow
                       /\ lastStartTime'[u] = now
                       /\ Len(heap') = Len(heap) + 1
                       /\ sessions'[u] = Len(heap')
                       /\ heap'[sessions'[u]] = NewUserSession(u)
                  ELSE /\ procs'[p].pc = "idle"
                       /\ heap'[me.session].State = heap[me.session].State
                       /\ Len(heap') = Len(heap)
                       /\ sessions' = sessions
                       /\ lastStartTime' = lastStartTime
                       /\ \A i \in DOMAIN out' : out'[i].msg = "Message limit reached"
     /\ lastStartTime' # lastStartTime
          => \E p \in ProcIds : Leaves(p, "body") /\ procs'[p].pc = "startPrompt"]_vars

\* two /start messages handled together, each on a session of its own: one has
\* restarted the dialog, the other was refused by checkStartCommand
C36_Witness ==
  /\ handled = <<[kind |-> "msg", text |-> S_slashStart], [kind |-> "msg", text |-> S_slashStart]>>
  /\ AllIdle
  /\ Len(heap) = 3
  /\ \A i \in DOMAIN heap : heap[i].LastCommand = S_slashStart \/ i = 3
  /\ sessions[1] = 3

\* C37: a handleMessage run that drops its message as a repeat of the session's
\* last command leaves the session object as it was, MessageCount included.
C37_DroppedRepeatNotCounted ==
  [][\A p \in ProcIds :
       LET me == procs[p]
           s == heap[me.session]
       IN (/\ Leaves(p, "body")
           /\ me.kind = "msg"
           /\ IsCommand(me.text)
           /\ s.MessageCount < MaxMessages
           /\ me.text = s.LastCommand
           /\ now - s.LastCommandTime < DupWindow)
            => heap'[me.session] = s]_vars

\* C38: a handleMessage run on a slash command that is none of start, help, pay,
\* complete_payment, get_plan and plan leaves State and Data of the session it
\* fetched as they were.
C38_UnknownCommandKeepsSession ==
  [][\A p \in ProcIds :
       LET me == procs[p]
       IN (/\ Leaves(p, "body")
           /\ me.kind = "msg"
           /\ IsCommand(me.text)
           /\ Command(me.text) \notin {S_start, S_help, S_pay, S_completePayment, S_getPlan, S_plan})
            => /\ heap'[me.session].State = heap[me.session].State
               /\ heap'[me.session].Data = heap[me.session].Data]_vars

\* C39: useFallback, once true, stays true; it becomes true only in a step that
\* makes a completion request, and that request is answered with the fallback
\* text; a request answered with the fallback text leaves useFallback true; and
\* a request made while useFallback is true is answered with the fallback text,
\* however the API would have answered.
C39_FallbackLatch ==
  [][/\ useFallback => useFallback'
     /\ (~useFallback /\ useFallback') => Requests(out', "completion") # {}
     /\ \A i \in Requests(out', "completion") :
          /\ i < Len(out')
          /\ (useFallback \/ useFallback') => out'[i + 1].msg = "Fallback text"
          /\ out'[i + 1].msg = "Fallback text" => useFallback']_vars

\* the plan request after a payment has switched the client to fallback mode,
\* and the free text sent by the user has then been answered with the fallback text
C39_Witness ==
  /\ useFallback
  /\ AllIdle
  /\ handled = <<[kind |-> "pay", text |-> EmptyStr], [kind |-> "msg", text |-> S_abc]>>
  /\ now >= SleepSeconds
  /\ Len(out) = 2
  /\ out[1].type = "completion"
  /\ out[1].src = "handleMessage"
  /\ out[2].msg = "Fallback text"

====
